---- MODULE Spec2Model ----
(***************************************************************************)
(* Model of the MES batch service (src/src/mes): the batch record store    *)
(* (BatchService), the retrying QMIB client (QMIBClient._request) and the   *)
(* orchestrator (IntegrationService), as called by the API routes.          *)
(*                                                                         *)
(* A request handler is a worker.  A worker's call is a sequence of steps;  *)
(* a new step starts wherever the code suspends: a store transaction, one   *)
(* attempt of a remote request.                                             *)
(***************************************************************************)
EXTENDS Integers, Sequences, FiniteSets, TLC

VARIABLES store, clock, proc

vars == <<store, clock, proc>>

(***************************************************************************)
(* Bounds and value domains                                                 *)
(***************************************************************************)

\* The last value datetime.utcnow() takes: one reading per status update.
MaxClock == 2

\* Python's None in an Optional[datetime] column; clock readings are >= 1.
Null == 0

\* Optional values: None is the empty sequence, a value x is <<x>>.
None == <<>>

Some(x) == <<x>>

Workers == {"w1", "w2"}

\* The workers that handle requests one at a time.
SerialWorkers == {"w1"}

BatchIds == {"B1", "B2"}

PLANNED == "planned"

IN_PROGRESS == "in_progress"

COMPLETED == "completed"

HALTED == "halted"

ABORTED == "aborted"

BatchStatus == {PLANNED, IN_PROGRESS, COMPLETED, HALTED, ABORTED}

\* data: a mapping, as the set of its (key, value) pairs.
NoData == {}

TempData == {<<"temp", 72>>}

\* equipment: an ordered list of identifiers.
NoEquipment == <<>>

TwoEquipment == <<"E2", "E1">>

\* BatchRecord values posted to create_batch.  A caller's timestamp is 9, a time
\* the clock never reads, so that the origin of a stored timestamp shows.
UpsertRecords ==
    { [batch_id |-> b, recipe_id |-> c[1], status |-> s, started_at |-> t[1],
       completed_at |-> t[2], data |-> c[2], equipment |-> c[3]] :
        b \in BatchIds, s \in BatchStatus,
        c \in {<<"R7", TempData, TwoEquipment>>, <<"R8", NoData, NoEquipment>>},
        t \in {<<Null, Null>>, <<9, Null>>} }


\* A JSON mapping sent by the remote system: the keys it holds and their values
\* (a key that is absent carries a fixed filler value that is never read);
\* idType is the JSON type of the value of "id".
FullTemplate ==
    [keys |-> {"id", "defaultData", "equipment"}, id |-> "R7", idType |-> "string",
     defaultData |-> TempData, equipment |-> TwoEquipment]

IdOnlyTemplate ==
    [keys |-> {"id"}, id |-> "R8", idType |-> "string",
     defaultData |-> NoData, equipment |-> NoEquipment]

EmptyTemplate ==
    [keys |-> {}, id |-> "", idType |-> "string",
     defaultData |-> NoData, equipment |-> NoEquipment]

\* A template whose id is the JSON number 7.
NumberIdTemplate ==
    [keys |-> {"id"}, id |-> "7", idType |-> "number",
     defaultData |-> NoData, equipment |-> NoEquipment]

Bodies == {FullTemplate, IdOnlyTemplate, EmptyTemplate, NumberIdTemplate}

UNAUTHORIZED == 401

\* Responses of the remote system: a status code and the body, None when the
\* response has no content.
Responses ==
    { [status_code |-> 200, content |-> Some(b)] : b \in Bodies }
        \cup { [status_code |-> c, content |-> None] : c \in {200, UNAUTHORIZED, 500} }

(***************************************************************************)
(* Record store: BatchService                                               *)
(***************************************************************************)

\* session.get(BatchRecordORM, batch_id): the row with that primary key.
Get(s, batch_id) ==
    LET rows == {r \in s : r.batch_id = batch_id}
    IN  IF rows = {} THEN None ELSE Some(CHOOSE r \in rows : TRUE)

\* BatchService._to_model: falsy data becomes {}, equipment becomes a list.
ToModel(orm) ==
    [batch_id |-> orm.batch_id, recipe_id |-> orm.recipe_id, status |-> orm.status,
     started_at |-> orm.started_at, completed_at |-> orm.completed_at,
     data |-> IF orm.data = {} THEN NoData ELSE orm.data,
     equipment |-> IF Len(orm.equipment) = 0 THEN NoEquipment ELSE orm.equipment]

\* Mutant of UpsertRecord: the row is added without looking up the primary key.
UpsertRecordInsertOnly(s, record) ==
    s \cup {[batch_id |-> record.batch_id, recipe_id |-> record.recipe_id,
             status |-> record.status, started_at |-> record.started_at,
             completed_at |-> record.completed_at, data |-> record.data,
             equipment |-> record.equipment]}

\* Mutant of UpsertRecord: an existing row keeps its timestamps.
UpsertRecordKeepTimestamps(s, record) ==
    LET found == Get(s, record.batch_id)
        orm == [batch_id |-> record.batch_id, recipe_id |-> record.recipe_id,
                status |-> record.status, started_at |-> record.started_at,
                completed_at |-> record.completed_at, data |-> record.data,
                equipment |-> record.equipment]
    IN  IF found = None THEN s \cup {orm}
        ELSE (s \ {found[1]})
                 \cup {[orm EXCEPT !.started_at = found[1].started_at,
                                   !.completed_at = found[1].completed_at]}

\* BatchService.upsert_record: the store after the transaction.
UpsertRecord(s, record) ==
    LET found == Get(s, record.batch_id)
        orm == [batch_id |-> record.batch_id, recipe_id |-> record.recipe_id,
                status |-> record.status, started_at |-> record.started_at,
                completed_at |-> record.completed_at, data |-> record.data,
                equipment |-> record.equipment]
    IN  IF found = None THEN s \cup {orm} ELSE (s \ {found[1]}) \cup {orm}

\* Mutant of UpdatedRow: HALTED is missing from the statuses that stamp
\* completed_at.
UpdatedRowHaltedUnstamped(orm, status, timestamp) ==
    LET r1 == [orm EXCEPT !.status = status]
        r2 == IF status = IN_PROGRESS /\ timestamp # Null
              THEN [r1 EXCEPT !.started_at = timestamp] ELSE r1
    IN  IF status \in {COMPLETED, ABORTED} /\ timestamp # Null
        THEN [r2 EXCEPT !.completed_at = timestamp] ELSE r2

\* Mutant of UpdatedRow: a finished batch is not moved back to PLANNED.
UpdatedRowForwardOnly(orm, status, timestamp) ==
    LET r1 == IF orm.status \in {COMPLETED, ABORTED, HALTED} /\ status = PLANNED
              THEN orm ELSE [orm EXCEPT !.status = status]
        r2 == IF status = IN_PROGRESS /\ timestamp # Null
              THEN [r1 EXCEPT !.started_at = timestamp] ELSE r1
    IN  IF status \in {COMPLETED, ABORTED, HALTED} /\ timestamp # Null
        THEN [r2 EXCEPT !.completed_at = timestamp] ELSE r2

\* Mutant of UpdatedRow: completing a batch that never started also stamps
\* started_at.
UpdatedRowStartOnComplete(orm, status, timestamp) ==
    LET r1 == [orm EXCEPT !.status = status]
        r2 == IF status \in {IN_PROGRESS, COMPLETED} /\ timestamp # Null
              THEN [r1 EXCEPT !.started_at = timestamp] ELSE r1
    IN  IF status \in {COMPLETED, ABORTED, HALTED} /\ timestamp # Null
        THEN [r2 EXCEPT !.completed_at = timestamp] ELSE r2

\* The row update_status writes: status always, one timestamp by target status,
\* and only when a timestamp is given.
UpdatedRow(orm, status, timestamp) ==
    LET r1 == [orm EXCEPT !.status = status]
        r2 == IF status = IN_PROGRESS /\ timestamp # Null
              THEN [r1 EXCEPT !.started_at = timestamp] ELSE r1
    IN  IF status \in {COMPLETED, ABORTED, HALTED} /\ timestamp # Null
        THEN [r2 EXCEPT !.completed_at = timestamp] ELSE r2

\* Mutant of UpdateStatus: an absent row is created instead of raising.
UpdateStatusCreating(s, batch_id, status, timestamp) ==
    LET found == Get(s, batch_id)
        orm == IF found = None
               THEN [batch_id |-> batch_id, recipe_id |-> "unknown-recipe",
                     status |-> PLANNED, started_at |-> Null, completed_at |-> Null,
                     data |-> NoData, equipment |-> NoEquipment]
               ELSE found[1]
        row == UpdatedRow(orm, status, timestamp)
    IN  [error |-> "none", store |-> (s \ {orm}) \cup {row},
         record |-> Some(ToModel(row))]

\* Mutant of UpdateStatus: the record is returned but the commit is left out.
UpdateStatusUncommitted(s, batch_id, status, timestamp) ==
    LET found == Get(s, batch_id)
    IN  IF found = None
        THEN [error |-> "KeyError", store |-> s, record |-> None]
        ELSE [error |-> "none", store |-> s,
              record |-> Some(ToModel(UpdatedRow(found[1], status, timestamp)))]

\* BatchService.update_status: KeyError when the row is absent, else the store
\* after the commit and the refreshed record.
UpdateStatus(s, batch_id, status, timestamp) ==
    LET found == Get(s, batch_id)
    IN  IF found = None
        THEN [error |-> "KeyError", store |-> s, record |-> None]
        ELSE LET row == UpdatedRow(found[1], status, timestamp)
             IN  [error |-> "none", store |-> (s \ {found[1]}) \cup {row},
                  record |-> Some(ToModel(row))]

\* Mutant of RecordFromTemplate: the recipe id is read without a default.
RecordFromTemplateRawId(template, batch_id) ==
    [batch_id |-> batch_id, recipe_id |-> template.id,
     status |-> PLANNED, started_at |-> Null, completed_at |-> Null,
     data |-> IF "defaultData" \in template.keys THEN template.defaultData ELSE NoData,
     equipment |-> IF "equipment" \in template.keys THEN template.equipment
                   ELSE NoEquipment]

\* record_from_template: missing keys default.
RecordFromTemplate(template, batch_id) ==
    [batch_id |-> batch_id,
     recipe_id |-> IF "id" \in template.keys THEN template.id ELSE "unknown-recipe",
     status |-> PLANNED, started_at |-> Null, completed_at |-> Null,
     data |-> IF "defaultData" \in template.keys THEN template.defaultData ELSE NoData,
     equipment |-> IF "equipment" \in template.keys THEN template.equipment
                   ELSE NoEquipment]

\* BatchRecord(...) validates its fields: recipe_id must be a string.
Validates(template) ==
    "id" \in template.keys => template.idType = "string"

(***************************************************************************)
(* Remote client: QMIBClient                                                *)
(***************************************************************************)

\* stop_after_attempt(3)
MaxAttempts == 3

\* Exception types that derive from httpx.HTTPError.
HTTPErrors == {"TransportError", "HTTPStatusError"}

\* retry_if_exception_type(httpx.HTTPError), on the exception an attempt raised.
RetryIf(exception) == exception \in HTTPErrors

\* Mutant of StopAfterAttempt: off by one, a 4th attempt is made.
StopAfterOneMore(n) == n > MaxAttempts

\* stop_after_attempt: no attempt follows attempt number n.
StopAfterAttempt(n) == n >= MaxAttempts

RECURSIVE Pow2(_)
Pow2(n) == IF n <= 0 THEN 1 ELSE 2 * Pow2(n - 1)

\* Mutant of WaitExponential: the exponent is the attempt number, the first
\* wait is 2.
WaitExponentialFromTwo(n) ==
    LET exp == 1 * Pow2(n)
        lo == IF exp < 1 THEN 1 ELSE exp
    IN  IF lo > 8 THEN 8 ELSE lo

\* wait_exponential(multiplier=1, min=1, max=8) after attempt number n.
WaitExponential(n) ==
    LET exp == 1 * Pow2(n - 1)
        lo == IF exp < 1 THEN 1 ELSE exp
    IN  IF lo > 8 THEN 8 ELSE lo

\* json.dumps of the request payload fails on a datetime value: model_dump()
\* keeps started_at and completed_at as datetime objects.
RecordEncodable(record) == record.started_at = Null /\ record.completed_at = Null

\* Mutant of AfterLoop: the unauthorized check is missing, raise_for_status
\* reports the 401.
AfterLoopNoAuthCheck(response) ==
    IF response.status_code < 200 \/ response.status_code >= 300
    THEN [error |-> "HTTPStatusError", value |-> None]
    ELSE [error |-> "none", value |-> response.content]

\* The code after the retry loop, on the response that ended it: the exception
\* it raises ("none" when it returns) and the value it returns.
AfterLoop(response) ==
    IF response.status_code = UNAUTHORIZED
    THEN [error |-> "QMIBAuthenticationError", value |-> None]
    ELSE IF response.status_code < 200 \/ response.status_code >= 300
    THEN [error |-> "HTTPStatusError", value |-> None]
    ELSE [error |-> "none", value |-> response.content]

(***************************************************************************)
(* Calls                                                                    *)
(***************************************************************************)

\* A worker with no call in progress.
IdleProc ==
    [pc |-> "idle", op |-> "none", batch_id |-> "none", status |-> "none",
     timestamp |-> Null, record |-> None, remote |-> "none", payload |-> None,
     encodable |-> TRUE, attempts |-> 0, outcomes |-> <<>>, waits |-> <<>>,
     response |-> None, value |-> None, error |-> "none", errorAttempt |-> 0,
     calls |-> <<>>, clientOpen |-> FALSE, inserted |-> FALSE,
     loaded |-> None]

Init ==
    /\ store = {}
    /\ clock = 1
    /\ proc = [p \in Workers |-> IdleProc]

\* The call of p ends by raising `error`; an open client is closed on the way
\* out of its async with block.
Raise(p, error, attempt) ==
    proc' = [proc EXCEPT ![p].pc = "raised", ![p].error = error,
                         ![p].errorAttempt = attempt, ![p].clientOpen = FALSE]

\* async with QMIBClient(...) as client: await client.<remote>(payload)
OpenClient(q, remote, payload, encodable) ==
    [q EXCEPT !.pc = "request", !.remote = remote, !.payload = payload,
              !.encodable = encodable, !.attempts = 0, !.outcomes = <<>>,
              !.waits = <<>>, !.calls = Append(q.calls, remote),
              !.clientOpen = TRUE]

\* routes.create_batch: BatchService.upsert_record(record)
CreateBatch(p, record) ==
    /\ proc[p].pc = "idle"
    /\ store' = UpsertRecord(store, record)
    /\ proc' = [proc EXCEPT ![p].pc = "returned", ![p].op = "upsert_record",
                            ![p].batch_id = record.batch_id,
                            ![p].record = Some(record),
                            ![p].inserted = (Get(store, record.batch_id) = None)]
    /\ UNCHANGED clock

\* Mutant of NeedsPublish: the wrong status is compared.
NeedsPublishOnHalted(status) == status = HALTED

\* Whether update_batch_status goes on to publish_batch_completion.
NeedsPublish(status) == status = COMPLETED

\* IntegrationService.update_batch_status up to the end of the store
\* transaction: the timestamp is read, the row is updated.
UpdateBatchStatus(p, batch_id, status) ==
    /\ proc[p].pc = "idle"
    /\ clock <= MaxClock
    /\ clock' = clock + 1
    /\ LET r == UpdateStatus(store, batch_id, status, clock)
           q == [proc[p] EXCEPT !.op = "update_batch_status", !.batch_id = batch_id,
                                !.status = status, !.timestamp = clock,
                                !.record = r.record]
       IN  /\ store' = r.store
           /\ proc' = [proc EXCEPT ![p] =
                  IF r.error # "none"
                  THEN [q EXCEPT !.pc = "raised", !.error = r.error]
                  ELSE IF NeedsPublish(status)
                  THEN [q EXCEPT !.pc = "publish"]
                  ELSE [q EXCEPT !.pc = "returned"]]

\* Mutant of PublishBatchCompletion: the status of the fetched record is not
\* checked.
PublishUnguarded(p) ==
    /\ proc[p].pc = "publish"
    /\ LET found == Get(store, proc[p].batch_id)
       IN  IF found = None
           THEN Raise(p, "KeyError", 0)
           ELSE proc' = [proc EXCEPT ![p] =
                    OpenClient(proc[p], "publish_batch_record",
                               Some(ToModel(found[1])),
                               RecordEncodable(ToModel(found[1])))]
    /\ UNCHANGED <<store, clock>>

\* IntegrationService.publish_batch_completion up to the remote call: the
\* record is fetched again, its status checked, the payload built.
PublishBatchCompletion(p) ==
    /\ proc[p].pc = "publish"
    /\ LET found == Get(store, proc[p].batch_id)
       IN  IF found = None
           THEN Raise(p, "KeyError", 0)
           ELSE IF ToModel(found[1]).status # COMPLETED
           THEN Raise(p, "ValueError", 0)
           ELSE proc' = [proc EXCEPT ![p] =
                    OpenClient(proc[p], "publish_batch_record",
                               Some(ToModel(found[1])),
                               RecordEncodable(ToModel(found[1])))]
    /\ UNCHANGED <<store, clock>>

\* IntegrationService.synchronize_batch_from_template up to the remote call.
SynchronizeBatchFromTemplate(p, batch_id) ==
    /\ proc[p].pc = "idle"
    /\ proc' = [proc EXCEPT ![p] =
           OpenClient([proc[p] EXCEPT !.op = "synchronize_batch_from_template",
                                         !.batch_id = batch_id],
                      "fetch_batch_template", None, TRUE)]
    /\ UNCHANGED <<store, clock>>

\* IntegrationService.acknowledge_event up to the remote call: the payload
\* holds acknowledged_at, a datetime.
AcknowledgeEvent(p) ==
    /\ proc[p].pc = "idle"
    /\ proc' = [proc EXCEPT ![p] =
           OpenClient([proc[p] EXCEPT !.op = "acknowledge_event"],
                      "acknowledge_event", None, FALSE)]
    /\ UNCHANGED <<store, clock>>

\* reraise=True: when the loop gives up, the last attempt's exception is raised
\* as it is.
GiveUpError(exception) == exception

\* Mutant of AttemptRaised: the client is closed on the success path only, an
\* exception leaves it open.
AttemptRaisedLeaking(p, exception) ==
    LET n == proc[p].attempts + 1
        q == [proc[p] EXCEPT !.attempts = n,
                             !.outcomes = Append(proc[p].outcomes, exception)]
    IN  IF RetryIf(exception) /\ ~StopAfterAttempt(n)
        THEN proc' = [proc EXCEPT ![p] =
                 [q EXCEPT !.waits = Append(q.waits, WaitExponential(n))]]
        ELSE proc' = [proc EXCEPT ![p] =
                 [q EXCEPT !.pc = "raised",
                           !.error = IF RetryIf(exception)
                                     THEN GiveUpError(exception) ELSE exception,
                           !.errorAttempt = n]]

\* Mutant of AttemptRaised: a retry starts the attempt count again.
AttemptRaisedRestarting(p, exception) ==
    LET n == proc[p].attempts + 1
        q == [proc[p] EXCEPT !.attempts = n,
                             !.outcomes = Append(proc[p].outcomes, exception)]
    IN  IF RetryIf(exception)
        THEN proc' = [proc EXCEPT ![p] =
                 IF n < MaxAttempts - 1
                 THEN [q EXCEPT !.waits = Append(q.waits, WaitExponential(n))]
                 ELSE [q EXCEPT !.attempts = 0, !.outcomes = <<>>,
                                !.waits = <<>>]]
        ELSE proc' = [proc EXCEPT ![p] =
                 [q EXCEPT !.pc = "raised", !.error = exception,
                           !.errorAttempt = n, !.clientOpen = FALSE]]

\* One attempt of the retry loop of _request ends with `exception` raised inside
\* the attempt: the loop sleeps and goes on, or the call raises.
AttemptRaised(p, exception) ==
    LET n == proc[p].attempts + 1
        q == [proc[p] EXCEPT !.attempts = n,
                             !.outcomes = Append(proc[p].outcomes, exception)]
    IN  IF RetryIf(exception) /\ ~StopAfterAttempt(n)
        THEN proc' = [proc EXCEPT ![p] =
                 [q EXCEPT !.waits = Append(q.waits, WaitExponential(n))]]
        ELSE proc' = [proc EXCEPT ![p] =
                 [q EXCEPT !.pc = "raised",
                           !.error = IF RetryIf(exception)
                                     THEN GiveUpError(exception) ELSE exception,
                           !.errorAttempt = n, !.clientOpen = FALSE]]

\* The request cannot be built: json.dumps raises TypeError inside the attempt,
\* before anything is sent.
AttemptEncodeError(p) ==
    /\ proc[p].pc = "request"
    /\ ~proc[p].encodable
    /\ AttemptRaised(p, "TypeError")
    /\ UNCHANGED <<store, clock>>

\* The transport fails (connection error, timeout): httpx raises a TransportError.
AttemptTransportError(p) ==
    /\ proc[p].pc = "request"
    /\ proc[p].encodable
    /\ AttemptRaised(p, "TransportError")
    /\ UNCHANGED <<store, clock>>

\* The remote system answers: the loop ends, the response is classified, and
\* the caller goes on after its async with block.
AttemptResponse(p, response) ==
    /\ proc[p].pc = "request"
    /\ proc[p].encodable
    /\ LET n == proc[p].attempts + 1
           after == AfterLoop(response)
           q == [proc[p] EXCEPT !.attempts = n,
                                !.outcomes = Append(proc[p].outcomes, "response"),
                                !.response = Some(response),
                                !.clientOpen = FALSE]
       IN  proc' = [proc EXCEPT ![p] =
               IF after.error # "none"
               THEN [q EXCEPT !.pc = "raised", !.error = after.error]
               ELSE IF q.op = "synchronize_batch_from_template"
               THEN [q EXCEPT !.pc = "upsert", !.value = after.value]
               ELSE [q EXCEPT !.pc = "returned", !.value = after.value]]
    /\ UNCHANGED <<store, clock>>

\* synchronize_batch_from_template after the fetch: the template is mapped to
\* a record and upserted; a None template has no get, and a record whose
\* fields do not validate is not built.
SyncUpsert(p) ==
    /\ proc[p].pc = "upsert"
    /\ IF proc[p].value = None
       THEN /\ Raise(p, "AttributeError", 0)
            /\ UNCHANGED store
       ELSE IF ~Validates(proc[p].value[1])
       THEN /\ Raise(p, "ValidationError", 0)
            /\ UNCHANGED store
       ELSE LET record == RecordFromTemplate(proc[p].value[1], proc[p].batch_id)
            IN  /\ store' = UpsertRecord(store, record)
                /\ proc' = [proc EXCEPT ![p].pc = "returned",
                                        ![p].record = Some(record),
                                        ![p].inserted =
                                            (Get(store, record.batch_id) = None)]
    /\ UNCHANGED clock

\* The call has ended; the worker takes the next request.
Return(p) ==
    /\ proc[p].pc \in {"returned", "raised"}
    /\ proc' = [proc EXCEPT ![p] = IdleProc]
    /\ UNCHANGED <<store, clock>>

Step(p) ==
    \/ \E record \in UpsertRecords : CreateBatch(p, record)
    \/ \E batch_id \in BatchIds, status \in BatchStatus :
           UpdateBatchStatus(p, batch_id, status)
    \/ PublishBatchCompletion(p)
    \/ \E batch_id \in BatchIds : SynchronizeBatchFromTemplate(p, batch_id)
    \/ AcknowledgeEvent(p)
    \/ AttemptEncodeError(p)
    \/ AttemptTransportError(p)
    \/ \E response \in Responses : AttemptResponse(p, response)
    \/ SyncUpsert(p)
    \/ Return(p)

\* Requests are handled one at a time.
Next == \E p \in SerialWorkers : Step(p)

Spec == Init /\ [][Next]_vars

(***************************************************************************)
(* Concurrent requests                                                      *)
(*                                                                          *)
(* Two requests run at once (two server processes, or create_batch in the   *)
(* thread pool beside a coroutine).  A BatchService call is a session: the  *)
(* row is read by session.get, attributes are assigned in memory, and the   *)
(* commit writes the columns whose value differs from the one that was read.*)
(* Another session may commit between the read and the commit.              *)
(***************************************************************************)

\* The batch id the concurrent requests compete for.
ConcIds == {"B1"}

\* BatchRecord values posted to create_batch by the concurrent requests.
ConcRecords ==
    { [batch_id |-> b, recipe_id |-> "R7", status |-> s, started_at |-> Null,
       completed_at |-> Null, data |-> TempData, equipment |-> TwoEquipment] :
        b \in ConcIds, s \in {PLANNED, COMPLETED} }

\* Answers of the remote system to the concurrent requests.
ConcResponses ==
    { [status_code |-> 200, content |-> Some(FullTemplate)],
      [status_code |-> UNAUTHORIZED, content |-> None] }

\* The attributes upsert_record assigns to the ORM object.
OrmOf(record) ==
    [batch_id |-> record.batch_id, recipe_id |-> record.recipe_id,
     status |-> record.status, started_at |-> record.started_at,
     completed_at |-> record.completed_at, data |-> record.data,
     equipment |-> record.equipment]

\* Mutant of Flush: the UPDATE sets every column to the value the object holds.
FlushAllColumns(current, loaded, dirty) == dirty

\* session.commit() of an object read as `loaded` and now holding `dirty`: the
\* UPDATE sets the columns whose value changed since the read, the other
\* columns keep what the row `current` holds by now.
Flush(current, loaded, dirty) ==
    [col \in DOMAIN current |->
        IF dirty[col] # loaded[col] THEN dirty[col] ELSE current[col]]

\* The store with the row of `row`'s primary key replaced by `row`.
WriteRow(s, row) == {r \in s : r.batch_id # row.batch_id} \cup {row}

\* BatchService.upsert_record up to session.get (called by create_batch).
UpsertGet(p, record) ==
    /\ proc[p].pc = "idle"
    /\ proc' = [proc EXCEPT ![p].pc = "commit", ![p].op = "upsert_record",
                            ![p].batch_id = record.batch_id,
                            ![p].record = Some(record),
                            ![p].loaded = Get(store, record.batch_id)]
    /\ UNCHANGED <<store, clock>>

\* BatchService.upsert_record from the assignments to the commit.  An object
\* that was not found is new: session.merge looks the key up again and the
\* row is inserted, or overwritten if it has appeared since.
UpsertCommit(p) ==
    /\ proc[p].pc = "commit"
    /\ proc[p].op \in {"upsert_record", "synchronize_batch_from_template"}
    /\ LET current == Get(store, proc[p].batch_id)
           dirty == OrmOf(proc[p].record[1])
           row == IF proc[p].loaded = None \/ current = None
                  THEN dirty
                  ELSE Flush(current[1], proc[p].loaded[1], dirty)
       IN  /\ store' = WriteRow(store, row)
           /\ proc' = [proc EXCEPT ![p].pc = "returned",
                                   ![p].inserted = (current = None)]
    /\ UNCHANGED clock

\* IntegrationService.update_batch_status up to session.get of update_status:
\* the timestamp is read, the row is looked up.
UpdateGet(p, batch_id, status) ==
    /\ proc[p].pc = "idle"
    /\ clock <= MaxClock
    /\ clock' = clock + 1
    /\ LET found == Get(store, batch_id)
           q == [proc[p] EXCEPT !.op = "update_batch_status", !.batch_id = batch_id,
                                !.status = status, !.timestamp = clock,
                                !.loaded = found]
       IN  proc' = [proc EXCEPT ![p] =
               IF found = None
               THEN [q EXCEPT !.pc = "raised", !.error = "KeyError"]
               ELSE [q EXCEPT !.pc = "commit"]]
    /\ UNCHANGED store

\* BatchService.update_status from the assignments to the refreshed record.
UpdateCommit(p) ==
    /\ proc[p].pc = "commit"
    /\ proc[p].op = "update_batch_status"
    /\ LET current == Get(store, proc[p].batch_id)
           dirty == UpdatedRow(proc[p].loaded[1], proc[p].status, proc[p].timestamp)
           row == Flush(current[1], proc[p].loaded[1], dirty)
       IN  /\ store' = WriteRow(store, row)
           /\ proc' = [proc EXCEPT ![p].record = Some(ToModel(row)),
                                   ![p].pc = IF NeedsPublish(proc[p].status)
                                             THEN "publish" ELSE "returned"]
    /\ UNCHANGED clock

\* synchronize_batch_from_template after the fetch, up to session.get of
\* upsert_record: the template is mapped to a record; a None template has no get.
SyncGet(p) ==
    /\ proc[p].pc = "upsert"
    /\ IF proc[p].value = None
       THEN Raise(p, "AttributeError", 0)
       ELSE IF ~Validates(proc[p].value[1])
       THEN Raise(p, "ValidationError", 0)
       ELSE LET record == RecordFromTemplate(proc[p].value[1], proc[p].batch_id)
            IN  proc' = [proc EXCEPT ![p].pc = "commit",
                                     ![p].record = Some(record),
                                     ![p].loaded = Get(store, record.batch_id)]
    /\ UNCHANGED <<store, clock>>

StepConc(p) ==
    \/ \E record \in ConcRecords : UpsertGet(p, record)
    \/ UpsertCommit(p)
    \/ \E batch_id \in ConcIds, status \in BatchStatus :
           UpdateGet(p, batch_id, status)
    \/ UpdateCommit(p)
    \/ PublishBatchCompletion(p)
    \/ \E batch_id \in ConcIds : SynchronizeBatchFromTemplate(p, batch_id)
    \/ SyncGet(p)
    \/ AttemptEncodeError(p)
    \/ AttemptTransportError(p)
    \/ \E response \in ConcResponses : AttemptResponse(p, response)
    \/ Return(p)

\* Two requests at a time, interleaved at every store access and remote attempt.
NextConc == \E p \in Workers : StepConc(p)

SpecConc == Init /\ [][NextConc]_vars

(***************************************************************************)
(* Properties of the remote client                                          *)
(***************************************************************************)

\* The workers whose call has entered _request.
InRequest(p) == proc[p].calls # <<>>

AllTransportErrors(outcomes, k) ==
    \A i \in 1..k : outcomes[i] = "TransportError"

\* C1: one logical remote call makes at most 3 attempts; attempt k+1 is made
\* only after attempts 1..k all ended in a transport failure; the first response
\* received ends the loop and a successful one is what the call returns; after
\* 3 transport failures in a row the call raises the third failure itself and
\* makes no 4th attempt.
C1_RetryBudget ==
    \A p \in Workers :
        LET q == proc[p]
            n == Len(q.outcomes)
        IN  /\ q.attempts = n
            /\ n <= 3
            /\ n >= 1 => AllTransportErrors(q.outcomes, n - 1)
            /\ q.pc = "request" => n < 3 /\ AllTransportErrors(q.outcomes, n)
            /\ q.response # None =>
                   /\ q.outcomes[n] = "response"
                   /\ q.pc # "request"
                   /\ q.response[1].status_code = 200 =>
                          /\ q.value = q.response[1].content
                          /\ q.error \in {"none", "AttributeError", "ValidationError"}
            /\ (n = 3 /\ AllTransportErrors(q.outcomes, 3)) =>
                   /\ q.pc = "raised"
                   /\ q.error = "TransportError"
                   /\ q.errorAttempt = 3
            /\ q.error = "TransportError" => n = 3 /\ q.errorAttempt = 3

\* C1 witness: two transport failures, then a successful response on the third
\* attempt, whose body the call has returned to synchronize_batch_from_template.
C1_Witness ==
    \E p \in Workers :
        /\ proc[p].outcomes = <<"TransportError", "TransportError", "response">>
        /\ proc[p].pc = "upsert"
        /\ proc[p].value = Some(FullTemplate)

\* C2: a response with status unauthorized makes the call raise
\* QMIBAuthenticationError with no further attempt, whichever attempt received
\* it; and QMIBAuthenticationError is raised only on such a response.
C2_AuthenticationError ==
    \A p \in Workers :
        LET q == proc[p]
        IN  /\ (q.response # None /\ q.response[1].status_code = 401) =>
                   /\ q.pc = "raised"
                   /\ q.error = "QMIBAuthenticationError"
                   /\ q.attempts = Len(q.outcomes)
                   /\ q.outcomes[q.attempts] = "response"
            /\ q.error = "QMIBAuthenticationError" =>
                   q.response # None /\ q.response[1].status_code = 401

\* C2 witness: the second attempt of a call is answered unauthorized; the call
\* has raised with one attempt of its budget unused.
C2_Witness ==
    \E p \in Workers :
        /\ proc[p].outcomes = <<"TransportError", "response">>
        /\ proc[p].response[1].status_code = 401
        /\ proc[p].error = "QMIBAuthenticationError"

\* C3 (as claimed): an error response other than unauthorized is retried; the
\* call surfaces it only when the 3 attempts are used up.
C3_StatusErrorRetried ==
    \A p \in Workers :
        proc[p].error = "HTTPStatusError" => proc[p].attempts = 3

(***************************************************************************)
(* Properties of status updates                                             *)
(***************************************************************************)

\* The step in which worker p runs update_batch_status's store transaction.
StartsUpdate(p) ==
    proc[p].pc = "idle" /\ proc'[p].op = "update_batch_status"

\* C4 (as claimed): when update_batch_status to COMPLETED ends with the remote
\* publish having failed, the error raised is the transport failure or the
\* authentication error, and the stored record is COMPLETED with completed_at
\* set.
C4_PublishFailureKeepsCompleted ==
    \A p \in Workers :
        LET q == proc[p]
            found == Get(store, q.batch_id)
        IN  (/\ q.op = "update_batch_status"
             /\ q.status = COMPLETED
             /\ q.pc = "raised"
             /\ q.calls = <<"publish_batch_record">>) =>
                /\ q.error \in {"TransportError", "QMIBAuthenticationError"}
                /\ found # None
                /\ found[1].status = COMPLETED
                /\ found[1].completed_at # Null

\* C5: update_batch_status on a batch_id that is not in the store raises
\* KeyError (not found) for every target status, leaves the store as it was and
\* makes no remote call.
C5_NotFound ==
    [][\A p \in Workers :
         (StartsUpdate(p) /\ Get(store, proc'[p].batch_id) = None) =>
             /\ proc'[p].pc = "raised"
             /\ proc'[p].error = "KeyError"
             /\ store' = store
             /\ proc'[p].calls = <<>>
             /\ proc'[p].attempts = 0
             /\ ~proc'[p].clientOpen]_vars

\* C5 witness: an update to COMPLETED of an id the non-empty store does not
\* hold has raised KeyError without a remote call.
C5_Witness ==
    \E p \in Workers :
        /\ proc[p].op = "update_batch_status"
        /\ proc[p].status = COMPLETED
        /\ proc[p].error = "KeyError"
        /\ proc[p].calls = <<>>
        /\ store # {}
        /\ Get(store, proc[p].batch_id) = None

\* C6: on an existing record, an update to IN_PROGRESS sets started_at to the
\* call's timestamp and keeps completed_at; an update to COMPLETED, HALTED or
\* ABORTED sets completed_at to the call's timestamp and keeps started_at; an
\* update to PLANNED keeps both; batch_id, recipe_id, data and equipment are
\* kept in every case.
C6_TimestampEffects ==
    [][\A p \in Workers :
         (StartsUpdate(p) /\ Get(store, proc'[p].batch_id) # None) =>
             LET old == Get(store, proc'[p].batch_id)[1]
                 after == Get(store', proc'[p].batch_id)
                 new == after[1]
                 status == proc'[p].status
                 ts == proc'[p].timestamp
             IN  /\ after # None
                 /\ ts = clock /\ ts # Null
                 /\ status = IN_PROGRESS =>
                        new.started_at = ts /\ new.completed_at = old.completed_at
                 /\ status \in {COMPLETED, HALTED, ABORTED} =>
                        new.completed_at = ts /\ new.started_at = old.started_at
                 /\ status = PLANNED =>
                        /\ new.started_at = old.started_at
                        /\ new.completed_at = old.completed_at
                 /\ new.batch_id = old.batch_id
                 /\ new.recipe_id = old.recipe_id
                 /\ new.data = old.data
                 /\ new.equipment = old.equipment]_vars

\* C6 witness: an update to IN_PROGRESS has returned a record whose started_at
\* is the call's timestamp and whose completed_at, set by an earlier update,
\* is kept, with the record's data and equipment.
C6_Witness ==
    \E p \in Workers :
        /\ proc[p].op = "update_batch_status"
        /\ proc[p].pc = "returned"
        /\ proc[p].status = IN_PROGRESS
        /\ proc[p].timestamp = 2
        /\ Get(store, proc[p].batch_id) = proc[p].record
        /\ proc[p].record[1].started_at = 2
        /\ proc[p].record[1].completed_at = 1
        /\ proc[p].record[1].equipment = TwoEquipment

\* C7: update_batch_status makes a remote call exactly when its target is
\* COMPLETED and the publish guard passes, and then exactly one logical call,
\* publish_batch_record; for every other target it makes none.
C7_PublishOnlyOnCompleted ==
    \A p \in Workers :
        LET q == proc[p]
        IN  q.op = "update_batch_status" =>
                /\ q.status # COMPLETED =>
                       /\ q.calls = <<>>
                       /\ q.attempts = 0
                       /\ q.pc \in {"returned", "raised"}
                /\ (/\ q.status = COMPLETED
                    /\ q.pc # "publish"
                    /\ q.error \notin {"KeyError", "ValueError"}) =>
                       q.calls = <<"publish_batch_record">>
                /\ q.error \in {"KeyError", "ValueError"} => q.calls = <<>>

\* C7 witness: an update to COMPLETED has passed the guard and is inside its
\* one publish_batch_record call.
C7_Witness ==
    \E p \in Workers :
        /\ proc[p].op = "update_batch_status"
        /\ proc[p].status = COMPLETED
        /\ proc[p].pc = "request"
        /\ proc[p].remote = "publish_batch_record"
        /\ proc[p].calls = <<"publish_batch_record">>

\* C8: for an existing record the store transaction of update_batch_status
\* never fails, whatever the record's status and the target, and the stored
\* status is then the target.
C8_AnyTransition ==
    [][\A p \in Workers :
         (StartsUpdate(p) /\ Get(store, proc'[p].batch_id) # None) =>
             /\ proc'[p].error = "none"
             /\ proc'[p].pc \in {"returned", "publish"}
             /\ Get(store', proc'[p].batch_id) # None
             /\ Get(store', proc'[p].batch_id)[1].status = proc'[p].status
             /\ proc'[p].record = Get(store', proc'[p].batch_id)]_vars

\* C8 witness: a record whose completed_at was set by the update at time 1 has
\* been moved back to PLANNED by the update at time 2.
C8_Witness ==
    \E p \in Workers :
        /\ proc[p].op = "update_batch_status"
        /\ proc[p].pc = "returned"
        /\ proc[p].status = PLANNED
        /\ proc[p].timestamp = 2
        /\ proc[p].record[1].completed_at = 1
        /\ Get(store, proc[p].batch_id) = proc[p].record

(***************************************************************************)
(* Properties of upsert                                                     *)
(***************************************************************************)

RowsOf(s, batch_id) == {r \in s : r.batch_id = batch_id}

\* C9: after upsert_record(record), get(record.batch_id) returns a record equal
\* to the one upserted, whether the id was in the store or not; upserting the
\* same record again leaves the store as it is; the store holds exactly one
\* row for that batch_id.
C9_UpsertThenGet ==
    /\ \A b \in BatchIds : Cardinality(RowsOf(store, b)) <= 1
    /\ \A p \in Workers :
           (proc[p].op = "upsert_record" /\ proc[p].pc = "returned") =>
               LET record == proc[p].record[1]
                   found == Get(store, record.batch_id)
               IN  /\ found # None
                   /\ ToModel(found[1]) = record
                   /\ UpsertRecord(store, record) = store
                   /\ Cardinality(RowsOf(store, record.batch_id)) = 1

\* C9 witness: an upsert of an id the store already held has returned, and
\* the store holds the upserted record beside another batch's.
C9_Witness ==
    \E p \in Workers :
        /\ proc[p].op = "upsert_record"
        /\ proc[p].pc = "returned"
        /\ ~proc[p].inserted
        /\ Cardinality(store) = 2
        /\ Get(store, proc[p].batch_id) = proc[p].record
        /\ proc[p].record[1].started_at = 9

\* The step in which worker p upserts a record for batch_id: create_batch, or
\* the upsert that ends a template synchronisation.
UpsertsRecord(p, batch_id) ==
    /\ \/ proc[p].pc = "idle" /\ proc'[p].op = "upsert_record"
       \/ proc[p].pc = "upsert" /\ proc'[p].pc = "returned"
    /\ proc'[p].batch_id = batch_id

\* C10 (as claimed): the started_at of a stored record changes only in an
\* update to IN_PROGRESS, its completed_at only in an update to COMPLETED,
\* HALTED or ABORTED; no other step changes either.
C10_OnlyTransitionsSetTimestamps ==
    [][\A b \in BatchIds :
         LET old == Get(store, b)
             new == Get(store', b)
         IN  (old # None /\ new # None) =>
                 /\ new[1].started_at # old[1].started_at =>
                        \E p \in Workers :
                            /\ StartsUpdate(p)
                            /\ proc'[p].batch_id = b
                            /\ proc'[p].status = IN_PROGRESS
                 /\ new[1].completed_at # old[1].completed_at =>
                        \E p \in Workers :
                            /\ StartsUpdate(p)
                            /\ proc'[p].batch_id = b
                            /\ proc'[p].status \in {COMPLETED, HALTED, ABORTED}]_vars

\* C10 (amended): update_batch_status changes started_at only when its target
\* is IN_PROGRESS and completed_at only when its target is COMPLETED, HALTED or
\* ABORTED, to the call's timestamp; every other change of a stored record's
\* timestamps is an upsert (create_batch, template synchronisation) replacing
\* the record, after which they are the upserted record's timestamps.
C10_TimestampWriters ==
    [][\A b \in BatchIds :
         LET old == Get(store, b)
             new == Get(store', b)
         IN  (old # None /\ new # None) =>
                 /\ new[1].started_at # old[1].started_at =>
                        \E p \in Workers :
                            \/ /\ StartsUpdate(p)
                               /\ proc'[p].batch_id = b
                               /\ proc'[p].status = IN_PROGRESS
                               /\ new[1].started_at = proc'[p].timestamp
                            \/ /\ UpsertsRecord(p, b)
                               /\ new[1].started_at = proc'[p].record[1].started_at
                 /\ new[1].completed_at # old[1].completed_at =>
                        \E p \in Workers :
                            \/ /\ StartsUpdate(p)
                               /\ proc'[p].batch_id = b
                               /\ proc'[p].status \in {COMPLETED, HALTED, ABORTED}
                               /\ new[1].completed_at = proc'[p].timestamp
                            \/ /\ UpsertsRecord(p, b)
                               /\ new[1].completed_at =
                                      proc'[p].record[1].completed_at]_vars

\* C10 witness: a record whose started_at came with an upsert has been updated
\* to HALTED: completed_at is the call's timestamp, started_at the upserted one.
C10_Witness ==
    \E p \in Workers :
        /\ proc[p].op = "update_batch_status"
        /\ proc[p].pc = "returned"
        /\ proc[p].status = HALTED
        /\ Get(store, proc[p].batch_id) = proc[p].record
        /\ proc[p].record[1].started_at = 9
        /\ proc[p].record[1].completed_at = proc[p].timestamp

(***************************************************************************)
(* Properties of the orchestrator                                           *)
(***************************************************************************)

\* The errors the template fetch itself can raise.
FetchErrors == {"TransportError", "QMIBAuthenticationError", "HTTPStatusError"}

\* C11: synchronize_batch_from_template has exactly two outcomes: it fails with
\* the error raised by the template fetch, or the fetch returned a payload and
\* the call returns the record it stored, with the given batch_id and status
\* PLANNED.
C11_TwoOutcomes ==
    \A p \in Workers :
        (/\ proc[p].op = "synchronize_batch_from_template"
         /\ proc[p].pc \in {"returned", "raised"})
        => \/ /\ proc[p].pc = "raised"
              /\ proc[p].error \in FetchErrors
           \/ /\ proc[p].pc = "returned"
              /\ proc[p].record # None
              /\ proc[p].record[1].batch_id = proc[p].batch_id
              /\ proc[p].record[1].status = PLANNED
              /\ Get(store, proc[p].batch_id) = proc[p].record

(***************************************************************************)
(* Concurrent status updates of one record                                  *)
(***************************************************************************)

\* The row of a batch that was created PLANNED, before any status update.
PlannedRow ==
    [batch_id |-> "B1", recipe_id |-> "R7", status |-> PLANNED,
     started_at |-> Null, completed_at |-> Null, data |-> TempData,
     equipment |-> TwoEquipment]

\* The state after create_batch has stored the PLANNED record.
InitUpdates ==
    /\ store = {PlannedRow}
    /\ clock = 1
    /\ proc = [p \in Workers |-> IdleProc]

\* Only update_batch_status is requested; a payload of a record these calls
\* wrote holds a datetime, so no attempt of its publish reaches the transport.
StepUpdates(p) ==
    \/ \E batch_id \in ConcIds, status \in BatchStatus :
           UpdateGet(p, batch_id, status)
    \/ UpdateCommit(p)
    \/ PublishBatchCompletion(p)
    \/ AttemptEncodeError(p)
    \/ Return(p)

NextUpdates == \E p \in Workers : StepUpdates(p)

SpecUpdates == InitUpdates /\ [][NextUpdates]_vars

\* C12: of two concurrent update_status calls on the same batch_id, the stored
\* status after a call's write is committed is the target of that write, the
\* one that committed last.
C12_LastWriteWins ==
    [][\A p \in Workers :
          (/\ proc[p].pc = "commit"
           /\ proc[p].op = "update_batch_status"
           /\ proc'[p].pc # "commit")
          => Get(store', proc[p].batch_id)[1].status = proc[p].status]_vars

(***************************************************************************)
(* End to end: PLANNED, IN_PROGRESS, COMPLETED                              *)
(***************************************************************************)

\* The remote system did not fail the call of p: no attempt ended in a
\* transport failure and no response was an error response.
RemoteDidNotFail(p) ==
    /\ \A i \in 1..Len(proc[p].outcomes) : proc[p].outcomes[i] # "TransportError"
    /\ proc[p].response # None => proc[p].response[1].status_code = 200

\* C13: a batch that was started by an update to IN_PROGRESS (started_at is an
\* earlier reading of the clock) and is then updated to COMPLETED,
\* with no other request in between and a remote system that does not fail:
\* the call returns, the record is COMPLETED with both timestamps set, and the
\* payload handed to the remote publish is the stored record, equipment in
\* its original order.
C13_CompletedAndPublished ==
    \A p \in SerialWorkers :
        (/\ proc[p].op = "update_batch_status"
         /\ proc[p].status = COMPLETED
         /\ proc[p].pc \in {"returned", "raised"}
         /\ proc[p].calls = <<"publish_batch_record">>
         /\ proc[p].record[1].started_at \in 1..(proc[p].timestamp - 1)
         /\ RemoteDidNotFail(p))
        => /\ proc[p].pc = "returned"
           /\ proc[p].record[1].status = COMPLETED
           /\ proc[p].record[1].completed_at # Null
           /\ proc[p].payload = proc[p].record
           /\ Get(store, proc[p].batch_id) = proc[p].record

(***************************************************************************)
(* Template adapter                                                         *)
(***************************************************************************)

\* The record the adapter is to build from `template` for `batch_id`, case by
\* case of the keys the template holds.
ExpectedFromTemplate(template, batch_id) ==
    LET content == IF template = FullTemplate
                   THEN <<"R7", TempData, TwoEquipment>>
                   ELSE IF template = IdOnlyTemplate
                   THEN <<"R8", NoData, NoEquipment>>
                   ELSE <<"unknown-recipe", NoData, NoEquipment>>
    IN  [batch_id |-> batch_id, recipe_id |-> content[1], status |-> PLANNED,
         started_at |-> Null, completed_at |-> Null, data |-> content[2],
         equipment |-> content[3]]

\* C14 as claimed: the template adapter maps every template and batch_id to a
\* record with that batch_id, status PLANNED, both timestamps null, recipe_id
\* the template's id or "unknown-recipe", data its defaultData or {}, equipment
\* its equipment or [].
C14_EveryPayload ==
    [][\A p \in Workers :
          (/\ proc[p].pc = "upsert"
           /\ proc[p].value # None
           /\ proc'[p] # proc[p])
          => /\ proc'[p].pc = "returned"
             /\ proc'[p].record =
                    Some(ExpectedFromTemplate(proc[p].value[1], proc[p].batch_id))]_vars

\* C14: the template adapter maps every template whose id, when present, is a
\* string, and every batch_id, to a record with that batch_id, status PLANNED,
\* both timestamps null, recipe_id the template's id or "unknown-recipe", data
\* its defaultData or {}, equipment its equipment or []; it does not fail on
\* missing keys.  A template whose id is not a string is rejected.
C14_TemplateAdapter ==
    [][\A p \in Workers :
          (/\ proc[p].pc = "upsert"
           /\ proc[p].value # None
           /\ proc'[p] # proc[p])
          => IF "id" \in proc[p].value[1].keys
                /\ proc[p].value[1].idType # "string"
             THEN /\ proc'[p].pc = "raised"
                  /\ proc'[p].error = "ValidationError"
                  /\ store' = store
             ELSE /\ proc'[p].pc = "returned"
                  /\ proc'[p].record =
                         Some(ExpectedFromTemplate(proc[p].value[1],
                                                   proc[p].batch_id))]_vars

\* C14 witness: a template without any key has been mapped to a record with
\* the default recipe id, no data and no equipment.
C14_Witness ==
    \E p \in Workers :
        /\ proc[p].op = "synchronize_batch_from_template"
        /\ proc[p].pc = "returned"
        /\ proc[p].value = Some(EmptyTemplate)
        /\ proc[p].record[1].recipe_id = "unknown-recipe"
        /\ proc[p].record[1].batch_id = "B2"
        /\ proc[p].record[1].equipment = NoEquipment

(***************************************************************************)
(* Publish under concurrent writers                                         *)
(***************************************************************************)

\* C15: under every interleaving of status updates, upserts and template syncs
\* on one batch_id, a payload is handed to the remote publish only when the
\* record fetched again has status COMPLETED, and every attempt carries a
\* payload with status COMPLETED; when the record fetched again is not
\* COMPLETED the call raises ValueError with no remote call opened, no attempt
\* made and the store unchanged.
C15_PublishOnlyCompleted ==
    [][\A p \in Workers :
          /\ (proc[p].pc = "publish" /\ proc'[p] # proc[p])
             => LET found == Get(store, proc[p].batch_id)
                IN  IF found # None /\ found[1].status = COMPLETED
                    THEN /\ proc'[p].pc = "request"
                         /\ proc'[p].payload = Some(ToModel(found[1]))
                         /\ proc'[p].attempts = 0
                         /\ store' = store
                    ELSE /\ proc'[p].pc = "raised"
                         /\ proc'[p].error = "ValueError"
                         /\ proc'[p].calls = <<>>
                         /\ proc'[p].attempts = 0
                         /\ ~proc'[p].clientOpen
                         /\ store' = store
          /\ (/\ proc[p].remote = "publish_batch_record"
              /\ proc'[p].attempts > proc[p].attempts)
             => proc[p].payload[1].status = COMPLETED]_vars

\* C15 witness: a call that wrote COMPLETED has raised ValueError without a
\* remote attempt, because the row was overwritten before it was fetched again.
C15_Witness ==
    \E p \in Workers :
        /\ proc[p].op = "update_batch_status"
        /\ proc[p].status = COMPLETED
        /\ proc[p].pc = "raised"
        /\ proc[p].error = "ValueError"
        /\ proc[p].attempts = 0
        /\ proc[p].record[1].status = COMPLETED
        /\ Get(store, proc[p].batch_id)[1].status = PLANNED

(***************************************************************************)
(* Write, then notify                                                       *)
(***************************************************************************)

\* C16: within one update_status call to COMPLETED the store write is committed
\* before the first publish attempt: from the moment the call's remote publish
\* is open, and at every attempt it has made, the store holds the row the call
\* wrote, with status COMPLETED and completed_at the call's timestamp.
C16_WriteBeforePublish ==
    \A p \in Workers :
        (/\ proc[p].op = "update_batch_status"
         /\ proc[p].pc = "request" \/ proc[p].attempts > 0)
        => LET found == Get(store, proc[p].batch_id)
           IN  /\ found # None
               /\ found[1].status = COMPLETED
               /\ found[1].completed_at = proc[p].timestamp
               /\ Some(ToModel(found[1])) = proc[p].record

\* C16 witness: a call to COMPLETED has made its first publish attempt and the
\* store shows its write.
C16_Witness ==
    \E p \in Workers :
        /\ proc[p].op = "update_batch_status"
        /\ proc[p].status = COMPLETED
        /\ proc[p].attempts = 1
        /\ proc[p].calls = <<"publish_batch_record">>
        /\ Get(store, proc[p].batch_id)[1].completed_at = proc[p].timestamp
        /\ Get(store, proc[p].batch_id)[1].status = COMPLETED

(***************************************************************************)
(* Client connections                                                       *)
(***************************************************************************)

\* C17: the client an orchestrator operation opened (template sync, publish,
\* acknowledge) is open exactly while its remote call is in progress: it is
\* closed when the operation has returned or raised, and when a template sync
\* goes on to store the record, on every exit path.
C17_ClientReleased ==
    \A p \in Workers :
        /\ proc[p].clientOpen <=> proc[p].pc = "request"
        /\ proc[p].pc \in {"returned", "raised"} => ~proc[p].clientOpen

\* C17 witness: a template sync has raised the transport failure of its third
\* attempt and its client is closed.
C17_Witness ==
    \E p \in Workers :
        /\ proc[p].op = "synchronize_batch_from_template"
        /\ proc[p].pc = "raised"
        /\ proc[p].attempts = MaxAttempts
        /\ proc[p].error = "TransportError"
        /\ proc[p].calls = <<"fetch_batch_template">>
        /\ ~proc[p].clientOpen

(***************************************************************************)
(* Backoff                                                                  *)
(***************************************************************************)

RECURSIVE SumSeq(_)
SumSeq(s) == IF s = <<>> THEN 0 ELSE s[1] + SumSeq(Tail(s))

\* C19: the wait before attempt 2 is 1 and the wait before attempt 3 is 2; a
\* wait follows every attempt that is followed by another one and no other: none
\* follows the final attempt or a response; the waits of one logical call add
\* up to at most 3.
C19_Backoff ==
    \A p \in Workers :
        InRequest(p)
        => /\ Len(proc[p].waits) >= 1 => proc[p].waits[1] = 1
           /\ Len(proc[p].waits) >= 2 => proc[p].waits[2] = 2
           /\ Len(proc[p].waits) =
                  IF proc[p].pc = "request" \/ proc[p].attempts = 0
                  THEN proc[p].attempts ELSE proc[p].attempts - 1
           /\ SumSeq(proc[p].waits) <= 3

\* C19 witness: a call has used its three attempts, with waits 1 and 2 between
\* them and none after the third.
C19_Witness ==
    \E p \in Workers :
        /\ proc[p].pc = "raised"
        /\ proc[p].attempts = MaxAttempts
        /\ proc[p].waits = <<1, 2>>

(***************************************************************************)
(* Timestamps under status updates                                          *)
(***************************************************************************)

\* C20: a record that entered the store PLANNED with both timestamps null and
\* is written by update_status calls only, in any order and interleaving: while
\* its status is IN_PROGRESS started_at is set, while its status is COMPLETED,
\* HALTED or ABORTED completed_at is set, and no step clears a timestamp that
\* was set, whatever status the record moves to.
C20_TimestampsKept ==
    [][\A b \in ConcIds :
          LET old == Get(store, b)[1]
              new == Get(store', b)[1]
          IN  /\ new.status = IN_PROGRESS => new.started_at # Null
              /\ new.status \in {COMPLETED, HALTED, ABORTED}
                     => new.completed_at # Null
              /\ old.started_at # Null => new.started_at # Null
              /\ old.completed_at # Null => new.completed_at # Null]_vars

\* C20 witness: a record that was started has been moved back to PLANNED by a
\* later call, and started_at is still the time of the start.
C20_Witness ==
    \E p \in Workers :
        /\ proc[p].op = "update_batch_status"
        /\ proc[p].pc = "returned"
        /\ proc[p].status = PLANNED
        /\ Get(store, proc[p].batch_id)[1].status = PLANNED
        /\ Get(store, proc[p].batch_id)[1].started_at \in 1..(proc[p].timestamp - 1)
        /\ proc[p].loaded[1].status = IN_PROGRESS

(***************************************************************************)
(* Termination                                                              *)
(***************************************************************************)

\* The steps of a call in progress: every remote attempt ends, in a response or
\* in a failure (the client's timeout), and every store access returns.
Progress(p) ==
    \/ PublishBatchCompletion(p)
    \/ AttemptEncodeError(p)
    \/ AttemptTransportError(p)
    \/ \E response \in Responses : AttemptResponse(p, response)
    \/ SyncUpsert(p)

\* Requests handled one at a time, all on one batch id.
StepLive(p) ==
    \/ \E record \in ConcRecords : CreateBatch(p, record)
    \/ \E batch_id \in ConcIds, status \in BatchStatus :
           UpdateBatchStatus(p, batch_id, status)
    \/ PublishBatchCompletion(p)
    \/ \E batch_id \in ConcIds : SynchronizeBatchFromTemplate(p, batch_id)
    \/ AcknowledgeEvent(p)
    \/ AttemptEncodeError(p)
    \/ AttemptTransportError(p)
    \/ \E response \in Responses : AttemptResponse(p, response)
    \/ SyncUpsert(p)
    \/ Return(p)

NextLive == \E p \in SerialWorkers : StepLive(p)

\* The event loop runs a call in progress until it ends.
SpecLive ==
    /\ Init
    /\ [][NextLive]_vars
    /\ \A p \in SerialWorkers : WF_vars(Progress(p))

InProgress(p) == proc[p].pc \in {"publish", "request", "upsert"}

Ended(p) == proc[p].pc \in {"returned", "raised"}

\* C18: every orchestrator call in progress eventually ends, by returning or
\* raising, whatever the remote system answers and however often it fails.
C18_Terminates == \A p \in SerialWorkers : InProgress(p) ~> Ended(p)

\* C18 witness: a call whose three attempts all failed has ended by raising.
C18_Witness ==
    \E p \in SerialWorkers :
        /\ Ended(p)
        /\ proc[p].op = "synchronize_batch_from_template"
        /\ proc[p].outcomes = <<"TransportError", "TransportError", "TransportError">>

(***************************************************************************)
(* Template sync over an existing record                                    *)
(***************************************************************************)

\* C21: a template sync that succeeds on a batch_id the store already holds
\* replaces that record, whatever its status was: afterwards the one stored
\* row of that id has status PLANNED, both timestamps null, and the recipe_id,
\* data and equipment of the template; the rows of other ids are untouched and
\* the call has made no remote call but the fetch.
C21_SyncReplaces ==
    [][\A p \in Workers :
          (/\ proc[p].pc = "upsert"
           /\ proc'[p].pc = "returned"
           /\ Get(store, proc[p].batch_id) # None)
          => LET b == proc[p].batch_id
                 new == Get(store', b)
             IN  /\ RowsOf(store', b) = {new[1]}
                 /\ new[1].status = PLANNED
                 /\ new[1].started_at = Null
                 /\ new[1].completed_at = Null
                 /\ ToModel(new[1]) =
                        ExpectedFromTemplate(proc[p].value[1], b)
                 /\ proc'[p].record = Some(ToModel(new[1]))
                 /\ \A other \in BatchIds \ {b} :
                        RowsOf(store', other) = RowsOf(store, other)
                 /\ proc'[p].calls = <<"fetch_batch_template">>]_vars

\* C21 witness: a sync with the id-only template has returned for an id that
\* was in the store, and the stored record is the template's, PLANNED and
\* without timestamps.
C21_Witness ==
    \E p \in Workers :
        /\ proc[p].op = "synchronize_batch_from_template"
        /\ proc[p].pc = "returned"
        /\ ~proc[p].inserted
        /\ proc[p].value = Some(IdOnlyTemplate)
        /\ Get(store, proc[p].batch_id) = proc[p].record
        /\ proc[p].record[1].recipe_id = "R8"
        /\ proc[p].record[1].status = PLANNED
        /\ clock > 1
====
